---- MODULE Spec2Model ----
(***************************************************************************)
(* ReactiGIF: the generate route (POST /api/generate) as a state machine.  *)
(* One request is followed from its arrival to its response, against the   *)
(* shared rate limiter, the user table and the generation table.  The      *)
(* external services (rate limiter, reasoning service, Giphy search, the   *)
(* database) are the environment: each answer is an input of the action    *)
(* that consumes it.                                                       *)
(***************************************************************************)
EXTENDS Integers, Sequences, FiniteSets, TLC

VARIABLES
    pc,            \* position of the POST handler
    userId,        \* const { userId } = await auth()
    text,          \* const { text } = await request.json()
    remaining,     \* let remaining (handler local)
    limit,         \* let limit (handler local)
    strategies,    \* strategiesResult.strategies (perspective of each)
    search,        \* searchPromises / searchResults, one per strategy
    sel,           \* selectionPromises / selections, one per search result
    writes,        \* the prisma.generation.create promises, one per branch
    groupId,       \* generationGroupId of this request
    response,      \* the Response the handler returned
    effects,       \* external calls started by this request, in order
    quota,         \* rate limiter: tokens left per user id in the window
    users,         \* user table: clerk ids that have a row
    records,       \* generation table
    nextId,        \* next record id the database hands out
    now,           \* last value read from the clock
    giphyKey,      \* process.env.GIPHY_API_KEY is set
    before,        \* quota, users and records as the request found them
    hist,          \* the history read: its request and its response
    client,        \* the browser: localStorage, the session, GifGenerator instances
    stats          \* the stats read: its request and its response

vars == <<pc, userId, text, remaining, limit, strategies, search, sel, writes,
          groupId, response, effects, quota, users, records, nextId, now,
          giphyKey, before, hist, client, stats>>

(* ---------------------------------------------------------------- bounds *)
MaxGifs == 2      \* longest candidate list a search answers with
MaxTime == 1      \* clock values are 0..MaxTime

(* ------------------------------------------------------------- constants *)
RateLimitCapacity == 10
DefaultLimit == 10
RequestedPerspectives == 3
NumStrategies == 3

Branches == 1..NumStrategies
Perspectives == {"emotional", "literal", "sarcastic"}

NoUser == "anonymous"
UserIds == {"u1", "u2"}
Callers == UserIds \cup {NoUser}

\* values of body.text: a non-empty string, the empty string, a missing
\* field, a non-zero number, the number zero
TextInputs ==
    { [type |-> "string", val |-> "my code finally compiled"],
      [type |-> "string", val |-> ""],
      [type |-> "undefined", val |-> ""],
      [type |-> "number", val |-> "42"],
      [type |-> "number", val |-> "0"] }
NoText == [type |-> "undefined", val |-> ""]

\* JavaScript truthiness of a body.text value
Truthy(t) ==
    CASE t.type = "string" -> t.val # ""
      [] t.type = "number" -> t.val # "0"
      [] OTHER -> FALSE

\* the 400 guard without its typeof test: !text
TextRejectedFalsyOnly(t) == ~Truthy(t)

\* the guard of the 400 response: !text || typeof text !== "string"
TextRejected(t) == ~Truthy(t) \/ t.type # "string"

\* the schema without its length and enum constraints
SchemaValidNonEmpty(s) == Len(s) >= 1

\* outputs of the reasoning service that pass strategiesSchema: an array of
\* length 3 whose perspectives are each one of the enum
SchemaValid(s) ==
    /\ Len(s) = NumStrategies
    /\ \A i \in 1..Len(s) : s[i] \in Perspectives

\* what the reasoning service is taken to answer: the listing the prompt
\* asks for, a permuted listing, and listings that repeat a perspective
StrategyLists ==
    { <<"emotional", "literal", "sarcastic">>,
      <<"sarcastic", "emotional", "literal">>,
      <<"literal", "literal", "emotional">>,
      <<"sarcastic", "sarcastic", "sarcastic">>,
      <<"emotional", "literal">> }

(* --------------------------------------------------------- rate limiter *)
\* ratelimit.limit(userId): one token of the window is taken when one is left
RatelimitLimit(tokens) ==
    IF tokens > 0
    THEN [success |-> TRUE,  limit |-> RateLimitCapacity, remaining |-> tokens - 1]
    ELSE [success |-> FALSE, limit |-> RateLimitCapacity, remaining |-> 0]

(* --------------------------------------------------------------- search *)
NullGif == <<>>
Candidate(b, i) == <<b, i>>
GifList(b, n) == [isArray |-> TRUE, items |-> [i \in 1..n |-> Candidate(b, i)]]
NotAList == [isArray |-> FALSE, items |-> <<>>]
EmptyList == [isArray |-> TRUE, items |-> <<>>]

\* answers of the search service to one fetch
SearchAnswers ==
    {[kind |-> k, n |-> 0] : k \in {"non2xx", "throw", "missing", "notlist"}}
    \cup {[kind |-> "list", n |-> n] : n \in 0..MaxGifs}

\* the value one searchPromise resolves to
SearchResult(b, ans) ==
    CASE ans.kind = "non2xx"  -> [st |-> "done", gifs |-> EmptyList, error |-> "Search failed"]
      [] ans.kind = "throw"   -> [st |-> "done", gifs |-> EmptyList, error |-> "Network error"]
      [] ans.kind = "missing" -> [st |-> "done", gifs |-> EmptyList, error |-> "null"]
      [] ans.kind = "notlist" -> [st |-> "done", gifs |-> NotAList, error |-> "null"]
      [] OTHER                -> [st |-> "done", gifs |-> GifList(b, ans.n), error |-> "null"]

SearchIdle == [st |-> "idle", gifs |-> EmptyList, error |-> "null"]
SearchPending == [st |-> "pending", gifs |-> EmptyList, error |-> "null"]

\* result.gifs.length; -1 stands for the undefined length of a non-array
GifsLength(g) == IF g.isArray THEN Len(g.items) ELSE -1

(* ------------------------------------------------------------ selection *)
SelIdle == [st |-> "idle", selectedGif |-> NullGif, reasoning |-> "", error |-> FALSE]
SelPending == [st |-> "pending", selectedGif |-> NullGif, reasoning |-> "", error |-> FALSE]

\* the selection of a branch whose search gave no candidates
SkippedSelection(res) ==
    [st |-> "done", selectedGif |-> NullGif,
     reasoning |-> IF res.error # "null" THEN res.error
                   ELSE "No GIFs found for this perspective",
     error |-> TRUE]

\* answers of the reasoning service to one selection call: an index that
\* passes selectionSchema (an integer >= 0), or a failure
SelectionAnswers ==
    {[kind |-> "index", index |-> i] : i \in 0..MaxGifs}
    \cup {[kind |-> "fail", index |-> 0]}

\* the pick that takes the first candidate whatever the index
PickGifFirst(items, index) == items[1]

\* result.gifs[selection.selectedIndex] || result.gifs[0]
PickGif(items, index) ==
    IF index + 1 \in 1..Len(items) THEN items[index + 1] ELSE items[1]

\* the value one selectionPromise resolves to when a call was made
Selection(res, ans) ==
    IF ans.kind = "index"
    THEN [st |-> "done", selectedGif |-> PickGif(res.gifs.items, ans.index),
          reasoning |-> "service reasoning", error |-> FALSE]
    ELSE [st |-> "done", selectedGif |-> res.gifs.items[1],
          reasoning |-> "AI selection failed, using top result", error |-> TRUE]

\* selections.filter(s => s.selectedGif !== null), as branch numbers in order
RECURSIVE FilterSelected(_, _)
FilterSelected(s, b) ==
    IF b > NumStrategies THEN <<>>
    ELSE (IF s[b].selectedGif # NullGif THEN <<b>> ELSE <<>>)
         \o FilterSelected(s, b + 1)

\* the selections without the filter on selectedGif
AllSelections(s) == [b \in Branches |-> b]

SuccessfulSelections(s) == FilterSelected(s, 1)

(* ------------------------------------------------------------- response *)
NoResponse ==
    [status |-> 0, results |-> <<>>, totalFound |-> 0,
     requestedPerspectives |-> 0, hasRateLimit |-> FALSE,
     remaining |-> 0, limit |-> 0]

ErrorResponse(status) == [NoResponse EXCEPT !.status = status]

\* the 429 body: remaining 0 and the limit of the limiter
QuotaExceededResponse(rl) ==
    [NoResponse EXCEPT !.status = 429, !.hasRateLimit = TRUE,
                       !.remaining = 0, !.limit = rl.limit]

\* responseData with the rateLimit field set for every caller
SuccessResponseWithRateLimit(strats, s, uid, rem, lim) ==
    LET ok == SuccessfulSelections(s) IN
    [status |-> 200,
     results |-> [i \in 1..Len(ok) |->
                    [perspective |-> strats[ok[i]],
                     url |-> s[ok[i]].selectedGif,
                     reasoning |-> s[ok[i]].reasoning]],
     totalFound |-> Len(ok),
     requestedPerspectives |-> RequestedPerspectives,
     hasRateLimit |-> TRUE,
     remaining |-> rem,
     limit |-> lim]

\* responseData and its optional rateLimit
SuccessResponse(strats, s, uid, rem, lim) ==
    LET ok == SuccessfulSelections(s) IN
    [status |-> 200,
     results |-> [i \in 1..Len(ok) |->
                    [perspective |-> strats[ok[i]],
                     url |-> s[ok[i]].selectedGif,
                     reasoning |-> s[ok[i]].reasoning]],
     totalFound |-> Len(ok),
     requestedPerspectives |-> RequestedPerspectives,
     hasRateLimit |-> uid # NoUser,
     remaining |-> IF uid # NoUser THEN rem ELSE 0,
     limit |-> IF uid # NoUser THEN lim ELSE 0]

(* ---------------------------------------------------------------- store *)
NoGroup == <<>>
RowId(u) == <<"row", u>>

\* the generation table as earlier requests can have left it: empty, or
\* holding the one record that a request of u1 with a single successful
\* branch writes at clock value 0 (the final state of such a run from the
\* empty table)
InitialStores ==
    { {},
      { [id |-> 1, userId |-> RowId("u1"),
         inputText |-> "my code finally compiled",
         perspective |-> "emotional", gifUrl |-> <<1, 1>>,
         generationGroupId |-> <<0, "k3f">>, createdAt |-> 0] } }

RandomSuffixes == {"k3f", "x9a"}
QuotaLevels == {0, 3}

RECURSIVE Repeat(_, _)
Repeat(x, n) == IF n = 0 THEN <<>> ELSE <<x>> \o Repeat(x, n - 1)

(* -------------------------------------------------------- history read *)
\* JavaScript numbers as far as the history route produces them
Num(n) == [k |-> "int", n |-> n]
NaN == [k |-> "nan", n |-> 0]
Infinity == [k |-> "inf", n |-> 0]

\* raw values of the page and limit query parameters
RawParams == {"absent", "", "1", "2", "3", "0", "-1", "2abc", "abc"}

\* parseInt on the strings above: the leading integer, or NaN
ParseInt(str) ==
    CASE str = "1" -> Num(1)
      [] str = "2" -> Num(2)
      [] str = "3" -> Num(3)
      [] str = "12" -> Num(12)
      [] str = "0" -> Num(0)
      [] str = "-1" -> Num(-1)
      [] str = "2abc" -> Num(2)
      [] OTHER -> NaN

\* parseInt(searchParams.get(name) || fallback): get gives null for an
\* absent parameter, and null and "" are both falsy
ParamOr(raw, fallback) ==
    ParseInt(IF raw \in {"absent", ""} THEN fallback ELSE raw)

\* the offset computed as page * limit
SkipPageTimesLimit(page, lim) ==
    IF page.k = "int" /\ lim.k = "int" THEN Num(page.n * lim.n) ELSE NaN

\* (page - 1) * limit
Skip(page, lim) ==
    IF page.k = "int" /\ lim.k = "int" THEN Num((page.n - 1) * lim.n) ELSE NaN

\* a + b
JsAdd(a, b) == IF a.k = "int" /\ b.k = "int" THEN Num(a.n + b.n) ELSE NaN

\* Array.prototype.slice's conversion of an argument to an offset in 0..len
RelativeIndex(x, len) ==
    IF x.k # "int" THEN 0
    ELSE IF x.n < 0 THEN (IF len + x.n > 0 THEN len + x.n ELSE 0)
    ELSE IF x.n > len THEN len ELSE x.n

\* seq.slice(start, end)
Slice(seq, start, end) ==
    LET from == RelativeIndex(start, Len(seq))
        to == RelativeIndex(end, Len(seq))
    IN IF to > from THEN SubSeq(seq, from + 1, to) ELSE <<>>

\* Math.ceil(count / limit)
CeilDiv(count, lim) ==
    IF lim.k # "int" THEN NaN
    ELSE IF lim.n = 0 THEN (IF count = 0 THEN NaN ELSE Infinity)
    ELSE IF lim.n > 0 THEN Num((count + lim.n - 1) \div lim.n)
    ELSE Num(0 - (count \div (0 - lim.n)))

\* the group key without its fallback to the row's own id
GroupKeyNoFallback(gen) == gen.generationGroupId

\* gen.generationGroupId || gen.id
GroupKey(gen) ==
    IF gen.generationGroupId \notin {"null", ""}
    THEN gen.generationGroupId ELSE gen.id

\* findMany({where: {userId}, orderBy: {createdAt: "desc"}}): every order of
\* the user's rows that is descending in createdAt (ties in any order)
RECURSIVE DescendingOrders(_)
DescendingOrders(rows) ==
    IF rows = {} THEN {<<>>}
    ELSE UNION { {<<r>> \o rest : rest \in DescendingOrders(rows \ {r})} :
                 r \in {x \in rows : \A y \in rows : x.createdAt >= y.createdAt} }

\* the same read without its orderBy: the user's rows in any order
RECURSIVE AnyOrders(_)
AnyOrders(rows) ==
    IF rows = {} THEN {<<>>}
    ELSE UNION { {<<r>> \o rest : rest \in AnyOrders(rows \ {r})} : r \in rows }

FindManyUnordered(store, rowId) == AnyOrders({r \in store : r.userId = rowId})

\* the same read without its where clause: the rows of every user
FindManyAllUsers(store, rowId) == DescendingOrders(store)

FindMany(store, rowId) == DescendingOrders({r \in store : r.userId = rowId})

\* the keys of the Map in insertion order
RECURSIVE MapKeys(_)
MapKeys(gens) ==
    IF gens = <<>> THEN <<>>
    ELSE LET front == MapKeys(SubSeq(gens, 1, Len(gens) - 1))
             key == GroupKey(gens[Len(gens)])
         IN IF \E i \in 1..Len(front) : front[i] = key
            THEN front ELSE Append(front, key)

\* grouped.get(key): the rows pushed under the key, in input order
MapGet(gens, key) == SelectSeq(gens, LAMBDA g : GroupKey(g) = key)

\* order[perspective] ?? 999
PerspectiveOrder(p) ==
    CASE p = "emotional" -> 0
      [] p = "literal" -> 1
      [] p = "sarcastic" -> 2
      [] OTHER -> 999

\* the group's rows left in input order
SortGifsNone(gifs) == gifs

\* gifs.sort((a, b) => aOrder - bOrder): a stable sort
RECURSIVE SortGifs(_)
SortGifs(gifs) ==
    IF gifs = <<>> THEN <<>>
    ELSE LET front == SortGifs(SubSeq(gifs, 1, Len(gifs) - 1))
             last == gifs[Len(gifs)]
             keep == SelectSeq(front, LAMBDA g :
                        PerspectiveOrder(g.perspective)
                          <= PerspectiveOrder(last.perspective))
             move == SelectSeq(front, LAMBDA g :
                        PerspectiveOrder(g.perspective)
                          > PerspectiveOrder(last.perspective))
         IN keep \o <<last>> \o move

\* groupedArray
GroupedArray(gens) ==
    LET keys == MapKeys(gens) IN
    [i \in 1..Len(keys) |->
        LET gifs == MapGet(gens, keys[i]) IN
        [groupId |-> keys[i],
         inputText |-> gifs[1].inputText,
         createdAt |-> gifs[1].createdAt,
         gifs |-> SortGifs(gifs)]]

\* groupedArray.slice(skip, skip + limit)
PaginatedGroups(groups, page, lim) ==
    Slice(groups, Skip(page, lim), JsAdd(Skip(page, lim), lim))

NoHistResponse ==
    [status |-> 0, generations |-> <<>>, hasPagination |-> FALSE,
     total |-> 0, page |-> NaN, limit |-> NaN, totalPages |-> NaN]

\* the body of the history response
HistoryResponse(gens, page, lim) ==
    LET groups == GroupedArray(gens) IN
    [status |-> 200,
     generations |-> PaginatedGroups(groups, page, lim),
     hasPagination |-> TRUE,
     total |-> Len(groups),
     page |-> page,
     limit |-> lim,
     totalPages |-> CeilDiv(Len(groups), lim)]

DefaultPage == "1"
DefaultPageSize == "12"

HistIdle ==
    [caller |-> NoUser, rawPage |-> "absent", rawLimit |-> "absent",
     reads |-> <<>>, gens |-> <<>>, response |-> NoHistResponse]

\* GET /api/history
HistoryGetStep(c, rawPage, rawLimit, dbUp) ==
    LET req == [HistIdle EXCEPT !.caller = c, !.rawPage = rawPage,
                                !.rawLimit = rawLimit]
        page == ParamOr(rawPage, DefaultPage)
        lim == ParamOr(rawLimit, DefaultPageSize)
    IN
    IF c = NoUser
    THEN hist' = [req EXCEPT !.response = [NoHistResponse EXCEPT !.status = 401]]
    ELSE IF ~dbUp
    THEN hist' = [req EXCEPT !.reads = <<"findUnique">>,
                             !.response = [NoHistResponse EXCEPT !.status = 500]]
    ELSE IF c \notin users
    THEN hist' = [req EXCEPT !.reads = <<"findUnique">>,
                             !.response = [NoHistResponse EXCEPT !.status = 200]]
    ELSE \E gens \in FindMany(records, RowId(c)) :
         hist' = [req EXCEPT !.reads = <<"findUnique", "findMany">>,
                             !.gens = gens,
                             !.response = HistoryResponse(gens, page, lim)]

HistoryGet ==
    /\ hist = HistIdle
    /\ \E c \in Callers, rawPage \in RawParams, rawLimit \in RawParams,
          dbUp \in BOOLEAN : HistoryGetStep(c, rawPage, rawLimit, dbUp)
    /\ UNCHANGED <<pc, userId, text, remaining, limit, strategies, search, sel,
                   writes, groupId, response, effects, quota, users, records,
                   nextId, now, giphyKey, before, client, stats>>

\* the response has been sent; the route handler keeps nothing
HistoryDone ==
    /\ hist # HistIdle
    /\ hist' = HistIdle
    /\ UNCHANGED <<pc, userId, text, remaining, limit, strategies, search, sel,
                   writes, groupId, response, effects, quota, users, records,
                   nextId, now, giphyKey, before, client, stats>>

\* rows the generation table can hold when a history read arrives: two
\* groups of u1 whose rows interleave in time, a legacy row without group
\* id or perspective, a row with a perspective outside the three, and a
\* group of u2
HistoryRows ==
    { [id |-> "a", userId |-> RowId("u1"), inputText |-> "deploy friday",
       perspective |-> "literal", generationGroupId |-> "g", createdAt |-> 2],
      [id |-> "b", userId |-> RowId("u1"), inputText |-> "deploy friday",
       perspective |-> "emotional", generationGroupId |-> "g", createdAt |-> 2],
      [id |-> "x", userId |-> RowId("u1"), inputText |-> "deploy friday",
       perspective |-> "shrug", generationGroupId |-> "g", createdAt |-> 3],
      [id |-> "c", userId |-> RowId("u1"), inputText |-> "old one",
       perspective |-> "null", generationGroupId |-> "null", createdAt |-> 1],
      [id |-> "d", userId |-> RowId("u1"), inputText |-> "monday",
       perspective |-> "sarcastic", generationGroupId |-> "h", createdAt |-> 3],
      [id |-> "e", userId |-> RowId("u1"), inputText |-> "monday",
       perspective |-> "emotional", generationGroupId |-> "h", createdAt |-> 1],
      [id |-> "y", userId |-> RowId("u1"), inputText |-> "monday",
       perspective |-> "emotional", generationGroupId |-> "h", createdAt |-> 2],
      [id |-> "f", userId |-> RowId("u2"), inputText |-> "monday",
       perspective |-> "emotional", generationGroupId |-> "k", createdAt |-> 2] }

(* ----------------------------------------------------------- stats read *)
NoStatsResponse ==
    [status |-> 0, totalGenerations |-> 0, todayGenerations |-> 0,
     daysActive |-> 0]

StatsIdle == [caller |-> NoUser, today |-> 0, response |-> NoStatsResponse]

\* elapsed whole days since the user row was created
ElapsedDays == {0, 1, 2}

\* the stats body with totalGenerations counting records
StatsResponseCountsRows(gens, today, days) ==
    LET todayGenerations == SelectSeq(gens, LAMBDA g : g.createdAt >= today)
    IN [status |-> 200,
        totalGenerations |-> Len(gens),
        todayGenerations |-> Len(todayGenerations),
        daysActive |-> IF days > 1 THEN days ELSE 1]

\* allGroups, todayGroups and the body of the stats response
StatsResponse(gens, today, days) ==
    LET allGroups == {GroupKey(gens[i]) : i \in 1..Len(gens)}
        todayGenerations == SelectSeq(gens, LAMBDA g : g.createdAt >= today)
        todayGroups == {GroupKey(todayGenerations[i]) :
                          i \in 1..Len(todayGenerations)}
    IN [status |-> 200,
        totalGenerations |-> Cardinality(allGroups),
        todayGenerations |-> Cardinality(todayGroups),
        daysActive |-> IF days > 1 THEN days ELSE 1]

\* GET /api/stats; today is the midnight before the clock reading
StatsGetStep(c, today, days, dbUp) ==
    LET req == [StatsIdle EXCEPT !.caller = c, !.today = today] IN
    IF c = NoUser
    THEN stats' = [req EXCEPT !.today = 0,
                              !.response = [NoStatsResponse EXCEPT !.status = 401]]
    ELSE IF ~dbUp
    THEN stats' = [req EXCEPT !.today = 0,
                              !.response = [NoStatsResponse EXCEPT !.status = 500]]
    ELSE IF c \notin users
    THEN stats' = [req EXCEPT !.today = 0,
                              !.response = [NoStatsResponse EXCEPT !.status = 200]]
    ELSE \E gens \in FindMany(records, RowId(c)) :
         stats' = [req EXCEPT !.response = StatsResponse(gens, today, days)]

StatsGet ==
    /\ stats = StatsIdle
    /\ \E c \in Callers, today \in 0..now, days \in ElapsedDays, dbUp \in BOOLEAN :
          StatsGetStep(c, today, days, dbUp)
    /\ UNCHANGED <<pc, userId, text, remaining, limit, strategies, search, sel,
                   writes, groupId, response, effects, quota, users, records,
                   nextId, now, giphyKey, before, hist, client>>

\* the response has been sent; the route handler keeps nothing
StatsDone ==
    /\ stats # StatsIdle
    /\ stats' = StatsIdle
    /\ UNCHANGED <<pc, userId, text, remaining, limit, strategies, search, sel,
                   writes, groupId, response, effects, quota, users, records,
                   nextId, now, giphyKey, before, hist, client>>

(* --------------------------------------------------------- GifGenerator *)
Instances == {"tab1", "tab2"}
InputValues == {"", "  ", "so tired"}

\* input.trim() on the values above
Trim(v) == IF v = "  " THEN "" ELSE v

\* useState initial values; live and orphan are the fetches still awaited by
\* this instance and by an unmounted earlier one, inFlight the number of
\* fetches this instance has started and not seen settle
FreshInstance ==
    [mounted |-> FALSE, input |-> "", result |-> "null", error |-> "null",
     isPending |-> FALSE, trialUsed |-> FALSE,
     live |-> FALSE, sentAnon |-> FALSE,
     orphan |-> FALSE, orphanAnon |-> FALSE, inFlight |-> 0]

ClientIdle ==
    [storage |-> "null", signedIn |-> FALSE,
     inst |-> [i \in Instances |-> FreshInstance]]

\* const canGenerate = user || (!user && !trialUsed)
CanGenerate(signedIn, trialUsed) == signedIn \/ (~signedIn /\ ~trialUsed)

\* outcomes of the fetch to /api/generate and of response.json()
FetchOutcomes == {"ok", "quota", "error", "throw"}

ClientFrame ==
    UNCHANGED <<pc, userId, text, remaining, limit, strategies, search, sel,
                writes, groupId, response, effects, quota, users, records,
                nextId, now, giphyKey, before, hist, stats>>

\* the component mounts and its effect reads localStorage
Mount(i) ==
    /\ ~client.inst[i].mounted
    /\ client' = [client EXCEPT !.inst[i] =
          [FreshInstance EXCEPT !.mounted = TRUE,
                                !.trialUsed = (client.storage = "true"),
                                !.orphan = client.inst[i].orphan,
                                !.orphanAnon = client.inst[i].orphanAnon]]
    /\ ClientFrame

\* the component unmounts; a fetch it awaits stays in flight
Unmount(i) ==
    LET st == client.inst[i] IN
    /\ st.mounted
    /\ ~(st.live /\ st.orphan)
    /\ client' = [client EXCEPT !.inst[i] =
          [FreshInstance EXCEPT !.orphan = st.orphan \/ st.live,
                                !.orphanAnon = IF st.live THEN st.sentAnon
                                               ELSE st.orphanAnon]]
    /\ ClientFrame

\* onChange of the Input, which is disabled while isPending || !canGenerate
TypeInput(i, v) ==
    LET st == client.inst[i] IN
    /\ st.mounted
    /\ ~(st.isPending \/ ~CanGenerate(client.signedIn, st.trialUsed))
    /\ client' = [client EXCEPT !.inst[i].input = v]
    /\ ClientFrame

\* handleSubmit without the isPending half of its guard
HandleSubmitStepWhilePending(st, signedIn) ==
    IF Trim(st.input) = ""
    THEN st
    ELSE [st EXCEPT !.error = "null", !.result = "null", !.isPending = TRUE,
                    !.live = TRUE, !.sentAnon = ~signedIn,
                    !.inFlight = @ + 1]

\* what handleSubmit does up to its await fetch
HandleSubmitStep(st, signedIn) ==
    IF Trim(st.input) = "" \/ st.isPending
    THEN st
    ELSE [st EXCEPT !.error = "null", !.result = "null", !.isPending = TRUE,
                    !.live = TRUE, !.sentAnon = ~signedIn,
                    !.inFlight = @ + 1]

\* a submit event of the form, which has a submit button only while
\* canGenerate
Submit(i) ==
    LET st == client.inst[i] IN
    /\ st.mounted
    /\ CanGenerate(client.signedIn, st.trialUsed)
    /\ client' = [client EXCEPT !.inst[i] = HandleSubmitStep(st, client.signedIn)]
    /\ ClientFrame

\* the rest of handleSubmit once the fetch settles
HandleResponseStep(st, outcome) ==
    LET shown == CASE outcome = "ok" -> [st EXCEPT !.result = "data"]
                   [] outcome = "quota" -> [st EXCEPT !.error = "Rate limit exceeded"]
                   [] outcome = "error" -> [st EXCEPT !.error = "Something went wrong"]
                   [] OTHER -> [st EXCEPT !.error = "Something went wrong"]
    IN [shown EXCEPT !.isPending = FALSE, !.live = FALSE,
                     !.inFlight = @ - 1,
                     !.trialUsed = IF outcome = "ok" /\ st.sentAnon
                                   THEN TRUE ELSE @]

FetchSettles(i, outcome) ==
    LET st == client.inst[i] IN
    /\ st.mounted
    /\ st.live
    /\ client' = [client EXCEPT
          !.inst[i] = HandleResponseStep(st, outcome),
          !.storage = IF outcome = "ok" /\ st.sentAnon THEN "true" ELSE @]
    /\ ClientFrame

\* the fetch of an unmounted instance settles: its state updates are lost,
\* its localStorage write is not
OrphanSettles(i, outcome) ==
    LET st == client.inst[i] IN
    /\ st.orphan
    /\ client' = [client EXCEPT
          !.inst[i].orphan = FALSE,
          !.inst[i].orphanAnon = FALSE,
          !.storage = IF outcome = "ok" /\ st.orphanAnon THEN "true" ELSE @]
    /\ ClientFrame

\* the Clerk session changes; useUser re-renders every instance
SignIn ==
    /\ ~client.signedIn
    /\ client' = [client EXCEPT !.signedIn = TRUE]
    /\ ClientFrame

SignOut ==
    /\ client.signedIn
    /\ client' = [client EXCEPT !.signedIn = FALSE]
    /\ ClientFrame

(* ----------------------------------------------------------------- Init *)
Init ==
    /\ pc = "idle"
    /\ userId = NoUser
    /\ text = NoText
    /\ remaining = 0
    /\ limit = DefaultLimit
    /\ strategies = <<>>
    /\ search = [b \in Branches |-> SearchIdle]
    /\ sel = [b \in Branches |-> SelIdle]
    /\ writes = [b \in Branches |-> "none"]
    /\ groupId = NoGroup
    /\ response = NoResponse
    /\ effects = <<>>
    /\ \E q \in QuotaLevels : quota = [u \in UserIds |-> q]
    /\ records \in InitialStores
    /\ users = {u \in UserIds : \E r \in records : r.userId = RowId(u)}
    /\ nextId = Cardinality(records) + 1
    /\ now = 0
    /\ giphyKey \in BOOLEAN
    /\ before = [quota |-> quota, users |-> users, records |-> records]
    /\ hist = HistIdle
    /\ client = ClientIdle
    /\ stats = StatsIdle

(* -------------------------------------------------------------- actions *)
\* the request arrives and auth() resolves the caller
Receive(c, t) ==
    /\ pc = "idle"
    /\ userId' = c
    /\ text' = t
    /\ pc' = IF c # NoUser THEN "gate" ELSE "parse"
    /\ before' = [quota |-> quota, users |-> users, records |-> records]
    /\ UNCHANGED <<remaining, limit, strategies, search, sel, writes, groupId,
                   response, effects, quota, users, records, nextId, now,
                   giphyKey, hist, client, stats>>

\* the quota check without the assignment remaining = rateLimitResult.remaining
CheckQuotaStepKeepsRemaining(serviceUp) ==
    LET rl == RatelimitLimit(quota[userId]) IN
    /\ effects' = Append(effects, "quota")
    /\ IF ~serviceUp
       THEN /\ pc' = "done"
            /\ response' = ErrorResponse(500)
            /\ UNCHANGED <<quota, remaining, limit>>
       ELSE /\ quota' = [quota EXCEPT ![userId] = IF rl.success THEN @ - 1 ELSE @]
            /\ IF ~rl.success
               THEN /\ pc' = "done"
                    /\ response' = QuotaExceededResponse(rl)
                    /\ UNCHANGED <<remaining, limit>>
               ELSE /\ pc' = "upsert"
                    /\ limit' = rl.limit
                    /\ UNCHANGED <<remaining, response>>
    /\ UNCHANGED users

\* the quota check without the return of its 429 branch: a rejected request
\* falls through to the user upsert
CheckQuotaStepNoReturn(serviceUp) ==
    LET rl == RatelimitLimit(quota[userId]) IN
    /\ effects' = Append(effects, "quota")
    /\ IF ~serviceUp
       THEN /\ pc' = "done"
            /\ response' = ErrorResponse(500)
            /\ UNCHANGED <<quota, remaining, limit>>
       ELSE /\ quota' = [quota EXCEPT ![userId] = IF rl.success THEN @ - 1 ELSE @]
            /\ pc' = "upsert"
            /\ limit' = rl.limit
            /\ remaining' = rl.remaining
            /\ UNCHANGED response
    /\ UNCHANGED users

\* the quota check with a limiter that admits without taking a token
CheckQuotaStepNoToken(serviceUp) ==
    LET rl == RatelimitLimit(quota[userId]) IN
    /\ effects' = Append(effects, "quota")
    /\ IF ~serviceUp
       THEN /\ pc' = "done"
            /\ response' = ErrorResponse(500)
            /\ UNCHANGED <<quota, remaining, limit>>
       ELSE /\ UNCHANGED quota
            /\ IF ~rl.success
               THEN /\ pc' = "done"
                    /\ response' = QuotaExceededResponse(rl)
                    /\ UNCHANGED <<remaining, limit>>
               ELSE /\ pc' = "upsert"
                    /\ limit' = rl.limit
                    /\ remaining' = rl.remaining
                    /\ UNCHANGED response
    /\ UNCHANGED users

\* if (userId) { await ratelimit.limit(userId) ... }; serviceUp = FALSE is the
\* limiter call rejecting, which the outer catch turns into the 500 response
CheckQuotaStep(serviceUp) ==
    LET rl == RatelimitLimit(quota[userId]) IN
    /\ effects' = Append(effects, "quota")
    /\ IF ~serviceUp
       THEN /\ pc' = "done"
            /\ response' = ErrorResponse(500)
            /\ UNCHANGED <<quota, remaining, limit>>
       ELSE /\ quota' = [quota EXCEPT ![userId] = IF rl.success THEN @ - 1 ELSE @]
            /\ IF ~rl.success
               THEN /\ pc' = "done"
                    /\ response' = QuotaExceededResponse(rl)
                    /\ UNCHANGED <<remaining, limit>>
               ELSE /\ pc' = "upsert"
                    /\ limit' = rl.limit
                    /\ remaining' = rl.remaining
                    /\ UNCHANGED response
    /\ UNCHANGED users

CheckQuota ==
    /\ pc = "gate"
    /\ \E serviceUp \in BOOLEAN : CheckQuotaStep(serviceUp)
    /\ UNCHANGED <<userId, text, strategies, search, sel, writes, groupId,
                   records, nextId, now, giphyKey, before, hist, client, stats>>

\* await prisma.user.upsert(...)
UpsertUser ==
    /\ pc = "upsert"
    /\ effects' = Append(effects, "upsert")
    /\ \E dbUp \in BOOLEAN :
         IF dbUp
         THEN /\ users' = users \cup {userId}
              /\ pc' = "parse"
              /\ UNCHANGED response
         ELSE /\ pc' = "done"
              /\ response' = ErrorResponse(500)
              /\ UNCHANGED users
    /\ UNCHANGED <<userId, text, remaining, limit, strategies, search, sel,
                   writes, groupId, quota, records, nextId, now, giphyKey, before, hist, client, stats>>

\* const { text } = await request.json(); the 400 guard
ValidateText ==
    /\ pc = "parse"
    /\ IF TextRejected(text)
       THEN /\ pc' = "done"
            /\ response' = ErrorResponse(400)
       ELSE /\ pc' = "derive"
            /\ UNCHANGED response
    /\ UNCHANGED <<userId, text, remaining, limit, strategies, search, sel,
                   writes, groupId, effects, quota, users, records, nextId,
                   now, giphyKey, before, hist, client, stats>>

\* generateObject({schema: strategiesSchema}), the GIPHY_API_KEY guard, and
\* the start of the three searches (strategies.map runs each async body up to
\* its fetch).  out = <<>> is the reasoning service failing.
DeriveStrategies ==
    /\ pc = "derive"
    /\ \E out \in StrategyLists \cup {<<>>} :
         IF ~SchemaValid(out)
         THEN /\ effects' = Append(effects, "derive")
              /\ pc' = "done"
              /\ response' = ErrorResponse(500)
              /\ UNCHANGED <<strategies, search>>
         ELSE /\ strategies' = out
              /\ IF ~giphyKey
                 THEN /\ effects' = Append(effects, "derive")
                      /\ pc' = "done"
                      /\ response' = ErrorResponse(500)
                      /\ UNCHANGED search
                 ELSE /\ effects' = Append(effects, "derive")
                                      \o Repeat("search", Len(out))
                      /\ search' = [b \in Branches |-> SearchPending]
                      /\ pc' = "search"
                      /\ UNCHANGED response
    /\ UNCHANGED <<userId, text, remaining, limit, sel, writes, groupId,
                   quota, users, records, nextId, now, giphyKey, before, hist, client, stats>>

\* one fetch settles; the async body of its strategy returns
SearchComplete(b, ans) ==
    /\ pc = "search"
    /\ search[b].st = "pending"
    /\ search' = [search EXCEPT ![b] = SearchResult(b, ans)]
    /\ UNCHANGED <<pc, userId, text, remaining, limit, strategies, sel,
                   writes, groupId, response, effects, quota, users, records,
                   nextId, now, giphyKey, before, hist, client, stats>>

\* branches whose selection body reaches generateObject
CallsSelector(res) == res.gifs.isArray /\ GifsLength(res.gifs) # 0

\* branches whose selection body throws before its try block
\* (result.gifs.map on a value that is not an array)
SelectionThrows(res) == ~res.gifs.isArray /\ GifsLength(res.gifs) # 0

\* await Promise.all(searchPromises), then searchResults.map starts every
\* selection body; a body that throws rejects Promise.all(selectionPromises)
JoinSearch ==
    /\ pc = "search"
    /\ \A b \in Branches : search[b].st = "done"
    /\ effects' = effects \o
         Repeat("select", Cardinality({b \in Branches : CallsSelector(search[b])}))
    /\ IF \E b \in Branches : SelectionThrows(search[b])
       THEN /\ pc' = "done"
            /\ response' = ErrorResponse(500)
            /\ UNCHANGED sel
       ELSE /\ sel' = [b \in Branches |->
                         IF GifsLength(search[b].gifs) = 0
                         THEN SkippedSelection(search[b])
                         ELSE SelPending]
            /\ pc' = "select"
            /\ UNCHANGED response
    /\ UNCHANGED <<userId, text, remaining, limit, strategies, search, writes,
                   groupId, quota, users, records, nextId, now, giphyKey, before, hist, client, stats>>

\* one selection generateObject settles
SelectComplete(b, ans) ==
    /\ pc = "select"
    /\ sel[b].st = "pending"
    /\ sel' = [sel EXCEPT ![b] = Selection(search[b], ans)]
    /\ UNCHANGED <<pc, userId, text, remaining, limit, strategies, search,
                   writes, groupId, response, effects, quota, users, records,
                   nextId, now, giphyKey, before, hist, client, stats>>

\* `group_${Date.now()}_${Math.random().toString(36).substr(2, 9)}`
GenerationGroupId(t, suffix) == <<t, suffix>>

\* the record data with the perspective of the first strategy on every record
GenerationRecordFirstPerspective(id, b, t) ==
    [id |-> id, userId |-> RowId(userId), inputText |-> text.val,
     perspective |-> strategies[1], gifUrl |-> sel[b].selectedGif,
     generationGroupId |-> groupId, createdAt |-> t]

\* the data of one prisma.generation.create, with the id and the createdAt
\* default the database fills in
GenerationRecord(id, b, t) ==
    [id |-> id, userId |-> RowId(userId), inputText |-> text.val,
     perspective |-> strategies[b], gifUrl |-> sel[b].selectedGif,
     generationGroupId |-> groupId, createdAt |-> t]

\* await Promise.all(selectionPromises); the filter; the 404; the owner
\* lookup; the group id and the start of the record writes; the response of
\* a request that persists nothing
JoinSelect ==
    /\ pc = "select"
    /\ \A b \in Branches : sel[b].st = "done"
    /\ LET ok == SuccessfulSelections(sel) IN
       IF Len(ok) = 0
       THEN /\ pc' = "done"
            /\ response' = ErrorResponse(404)
            /\ UNCHANGED <<effects, groupId, writes, now>>
       ELSE IF userId = NoUser
       THEN /\ pc' = "done"
            /\ response' = SuccessResponse(strategies, sel, userId, remaining, limit)
            /\ UNCHANGED <<effects, groupId, writes, now>>
       ELSE \E dbUp \in BOOLEAN :
            IF ~dbUp
            THEN /\ effects' = Append(effects, "lookup")
                 /\ pc' = "done"
                 /\ response' = ErrorResponse(500)
                 /\ UNCHANGED <<groupId, writes, now>>
            ELSE IF userId \notin users
            THEN /\ effects' = Append(effects, "lookup")
                 /\ pc' = "done"
                 /\ response' = SuccessResponse(strategies, sel, userId, remaining, limit)
                 /\ UNCHANGED <<groupId, writes, now>>
            ELSE \E t \in now..MaxTime, suffix \in RandomSuffixes :
                 /\ now' = t
                 /\ groupId' = GenerationGroupId(t, suffix)
                 /\ writes' = [b \in Branches |->
                                 IF \E i \in 1..Len(ok) : ok[i] = b
                                 THEN "pending" ELSE "none"]
                 /\ effects' = Append(effects, "lookup") \o Repeat("write", Len(ok))
                 /\ pc' = "persist"
                 /\ UNCHANGED response
    /\ UNCHANGED <<userId, text, remaining, limit, strategies, search, sel,
                   quota, users, records, nextId, giphyKey, before, hist, client, stats>>

\* the creates as one transaction: a rejected create removes the records the
\* request has written
WriteCompleteRollback(b, dbUp) ==
    /\ pc \in {"persist", "done"}
    /\ writes[b] = "pending"
    /\ IF dbUp
       THEN \E t \in now..MaxTime :
            /\ now' = t
            /\ records' = records \cup {GenerationRecord(nextId, b, t)}
            /\ nextId' = nextId + 1
            /\ writes' = [writes EXCEPT ![b] = "ok"]
            /\ UNCHANGED <<pc, response>>
       ELSE /\ writes' = [writes EXCEPT ![b] = "failed"]
            /\ records' = before.records
            /\ IF pc = "persist"
               THEN /\ pc' = "done"
                    /\ response' = ErrorResponse(500)
               ELSE UNCHANGED <<pc, response>>
            /\ UNCHANGED <<nextId, now>>
    /\ UNCHANGED <<userId, text, remaining, limit, strategies, search, sel,
                   groupId, effects, quota, users, giphyKey, before, hist, client, stats>>

\* one prisma.generation.create settles.  The first rejection rejects
\* Promise.all and the outer catch answers 500; creates still in flight
\* settle afterwards.
WriteComplete(b, dbUp) ==
    /\ pc \in {"persist", "done"}
    /\ writes[b] = "pending"
    /\ IF dbUp
       THEN \E t \in now..MaxTime :
            /\ now' = t
            /\ records' = records \cup {GenerationRecord(nextId, b, t)}
            /\ nextId' = nextId + 1
            /\ writes' = [writes EXCEPT ![b] = "ok"]
            /\ UNCHANGED <<pc, response>>
       ELSE /\ writes' = [writes EXCEPT ![b] = "failed"]
            /\ IF pc = "persist"
               THEN /\ pc' = "done"
                    /\ response' = ErrorResponse(500)
               ELSE UNCHANGED <<pc, response>>
            /\ UNCHANGED <<records, nextId, now>>
    /\ UNCHANGED <<userId, text, remaining, limit, strategies, search, sel,
                   groupId, effects, quota, users, giphyKey, before, hist, client, stats>>

\* Promise.all over the creates resolves; responseData is returned
JoinPersist ==
    /\ pc = "persist"
    /\ \A b \in Branches : writes[b] \in {"none", "ok"}
    /\ pc' = "done"
    /\ response' = SuccessResponse(strategies, sel, userId, remaining, limit)
    /\ UNCHANGED <<userId, text, remaining, limit, strategies, search, sel,
                   writes, groupId, effects, quota, users, records, nextId,
                   now, giphyKey, before, hist, client, stats>>

Next ==
    \/ \E c \in Callers, t \in TextInputs : Receive(c, t)
    \/ CheckQuota
    \/ UpsertUser
    \/ ValidateText
    \/ DeriveStrategies
    \/ \E b \in Branches, ans \in SearchAnswers : SearchComplete(b, ans)
    \/ JoinSearch
    \/ \E b \in Branches, ans \in SelectionAnswers : SelectComplete(b, ans)
    \/ JoinSelect
    \/ \E b \in Branches, dbUp \in BOOLEAN : WriteComplete(b, dbUp)
    \/ JoinPersist

Spec == Init /\ [][Next]_vars

(* ------------------------------------------- history read specification *)
\* the handler at rest, the tables as earlier requests and the pre-grouping
\* version of the application left them
HistInit ==
    /\ pc = "idle"
    /\ userId = NoUser
    /\ text = NoText
    /\ remaining = 0
    /\ limit = DefaultLimit
    /\ strategies = <<>>
    /\ search = [b \in Branches |-> SearchIdle]
    /\ sel = [b \in Branches |-> SelIdle]
    /\ writes = [b \in Branches |-> "none"]
    /\ groupId = NoGroup
    /\ response = NoResponse
    /\ effects = <<>>
    /\ quota = [u \in UserIds |-> RateLimitCapacity]
    /\ records \in SUBSET HistoryRows
    /\ \E extra \in SUBSET UserIds :
         users = extra \cup {u \in UserIds : \E r \in records : r.userId = RowId(u)}
    /\ nextId = 1
    /\ now = 3
    /\ giphyKey = TRUE
    /\ before = [quota |-> quota, users |-> users, records |-> records]
    /\ hist = HistIdle
    /\ client = ClientIdle
    /\ stats = StatsIdle

HistNext == HistoryGet \/ HistoryDone

HistSpec == HistInit /\ [][HistNext]_vars

(* --------------------------------------------- stats read specification *)
StatsNext == StatsGet \/ StatsDone

StatsSpec == HistInit /\ [][StatsNext]_vars

(* ------------------------------------------------ browser specification *)
ClientNext ==
    \/ \E i \in Instances : Mount(i)
    \/ \E i \in Instances : Unmount(i)
    \/ \E i \in Instances, v \in InputValues : TypeInput(i, v)
    \/ \E i \in Instances : Submit(i)
    \/ \E i \in Instances, outcome \in FetchOutcomes : FetchSettles(i, outcome)
    \/ \E i \in Instances, outcome \in FetchOutcomes : OrphanSettles(i, outcome)
    \/ SignIn
    \/ SignOut

ClientInit ==
    /\ Init
    /\ records = {}
    /\ giphyKey
    /\ quota = [u \in UserIds |-> 3]

ClientSpec == ClientInit /\ [][ClientNext]_vars

(* ---------------------------------------------------- fair specification *)
\* The handler's own continuations run once what they await has settled, and
\* the limiter, the database and the strategy call are taken to answer.  The
\* fetch of a search and the generateObject of a selection carry no timeout
\* or abort signal, so nothing obliges them to settle.
HandlerStep ==
    \/ CheckQuota
    \/ UpsertUser
    \/ ValidateText
    \/ DeriveStrategies
    \/ JoinSearch
    \/ JoinSelect
    \/ \E b \in Branches, dbUp \in BOOLEAN : WriteComplete(b, dbUp)
    \/ JoinPersist

FairSpec == Spec /\ WF_vars(HandlerStep)

(* ------------------------------------------------------------ properties *)
Contains(seq, x) == \E i \in 1..Len(seq) : seq[i] = x
SeqRange(seq) == {seq[i] : i \in 1..Len(seq)}

SearchesDone == \A b \in Branches : search[b].st = "done"
SelectionsDone == \A b \in Branches : sel[b].st = "done"
HasCandidates(b) == search[b].st = "done" /\ GifsLength(search[b].gifs) >= 1

\* C1: whenever strategy derivation succeeded, the strategy array has exactly
\* 3 elements and their perspectives are exactly emotional, literal and
\* sarcastic, none repeated, none omitted.
C1_StrategiesCoverPerspectives ==
    strategies # <<>> =>
        /\ Len(strategies) = 3
        /\ SeqRange(strategies) = Perspectives

\* C2: for an identified caller the quota check is the first external call,
\* and a request the check rejects (no token left) ends with the 429
\* response carrying the limiter's data, having made no other call and
\* having changed neither the user table nor the generation table.
C2_QuotaCheckFirst ==
    userId # NoUser =>
        /\ effects # <<>> => Head(effects) = "quota"
        /\ response.status = 429 => before.quota[userId] = 0
        /\ (pc = "done" /\ before.quota[userId] = 0) =>
              /\ effects = <<"quota">>
              /\ response.status \in {429, 500}
              /\ response.status = 429 =>
                    response.hasRateLimit /\ response.remaining = 0
              /\ response.results = <<>>
              /\ users = before.users
              /\ records = before.records
              /\ \A b \in Branches : writes[b] = "none"

C2_Rejected ==
    /\ pc = "done"
    /\ userId # NoUser
    /\ before.quota[userId] = 0
    /\ response.status = 429

InvalidText == text.type # "string" \/ text.val = ""
DownstreamCalls == {"derive", "search", "select", "lookup", "write"}

\* C3 as stated: a request with empty, missing or non-string text gets its
\* 400 before any external call, so no quota unit is consumed and no user
\* row is upserted, for identified and anonymous callers alike.
C3_RejectedBeforeAnyCall ==
    response.status = 400 =>
        /\ effects = <<>>
        /\ quota = before.quota
        /\ users = before.users

\* C3 as amended: a request with empty, missing or non-string text never
\* reaches the reasoning service, the search or a record write and never
\* ends in 200 or 404; its 400 comes before any external call for an
\* anonymous caller, and after exactly the quota check (one unit consumed)
\* and the user upsert for an identified caller.
C3_RejectedBeforePipeline ==
    (pc # "idle" /\ InvalidText) =>
        /\ SeqRange(effects) \cap DownstreamCalls = {}
        /\ records = before.records
        /\ response.status \in {0, 400, 429, 500}
        /\ response.status = 400 =>
              IF userId = NoUser
              THEN effects = <<>> /\ quota = before.quota /\ users = before.users
              ELSE /\ effects = <<"quota", "upsert">>
                   /\ quota[userId] = before.quota[userId] - 1
                   /\ users = before.users \cup {userId}

C3_IdentifiedRejected ==
    /\ response.status = 400
    /\ userId # NoUser
    /\ text.type = "number"

\* C4: if a record write fails after at least one selection succeeded, the
\* caller still receives the success response with its results.
C4_PersistFailureKeepsResponse ==
    (pc = "done" /\ \E b \in Branches : writes[b] = "failed") =>
        /\ response.status = 200
        /\ Len(response.results) >= 1

\* C5: whatever a branch's search answers (non-2xx, network error, malformed
\* payload), the branch completes with a candidate list, empty when the
\* search failed, and the request goes on to the selection stage.
C5_SearchBulkhead ==
    SearchesDone =>
        /\ \A b \in Branches : search[b].gifs.isArray
        /\ pc = "done" => SelectionsDone

\* C6: the group id of a request differs from the group id of every record
\* that another request wrote.
C6_GroupIdsUnique ==
    groupId # NoGroup =>
        \A r \in before.records : r.generationGroupId # groupId

\* C7: every generate request eventually returns a response.
C7_EveryRequestReturns == (pc # "idle") ~> (pc = "done")

Rank(p) ==
    CASE p = "emotional" -> 0
      [] p = "literal" -> 1
      [] p = "sarcastic" -> 2
      [] OTHER -> 3

\* C8: in every successful response the results are in perspective-rank
\* order: emotional before literal before sarcastic.
C8_ResultsInRankOrder ==
    response.status = 200 =>
        \A i, j \in 1..Len(response.results) :
            i < j => Rank(response.results[i].perspective)
                       <= Rank(response.results[j].perspective)

\* C9: if all three branches report zero candidates (empty result or search
\* error), the request ends with 404 and no results, no group id is made, no
\* record write is started and the generation table is as the request
\* found it.
C9_NoCandidatesNotFound ==
    (pc = "done" /\ SearchesDone /\ \A b \in Branches : GifsLength(search[b].gifs) = 0) =>
        /\ response.status = 404
        /\ response.results = <<>>
        /\ response.totalFound = 0
        /\ groupId = NoGroup
        /\ ~Contains(effects, "write")
        /\ \A b \in Branches : writes[b] = "none"
        /\ records = before.records

C9_AllBranchesEmpty ==
    /\ pc = "done"
    /\ SearchesDone
    /\ \A b \in Branches : GifsLength(search[b].gifs) = 0
    /\ \E b \in Branches : search[b].error = "Search failed"
    /\ \E b \in Branches : search[b].error = "null"
    /\ userId # NoUser
    /\ response.status = 404

\* C10: a success response of a request in which exactly k branches had at
\* least one candidate has k results, totalFound = k and
\* requestedPerspectives = 3, lists the perspectives of those k branches, and
\* the perspective of every branch without candidates is absent from it.
C10_PartialResults ==
    response.status = 200 =>
        LET withGifs == {b \in Branches : HasCandidates(b)}
            k == Cardinality(withGifs)
            listed == {response.results[i].perspective :
                         i \in 1..Len(response.results)}
        IN /\ k >= 1
           /\ Len(response.results) = k
           /\ response.totalFound = k
           /\ response.requestedPerspectives = 3
           /\ listed = {strategies[b] : b \in withGifs}
           /\ \A b \in Branches \ withGifs : strategies[b] \notin listed

Selected == {b \in Branches : sel[b].st = "done" /\ sel[b].selectedGif # NullGif}
Appended == records \ before.records

\* C11: a request of an identified caller that ends in the success response
\* (k >= 1 successful selections, every write succeeded) has appended exactly
\* k records, one per successful selection, each with the request's group
\* id, input text and owner row and with the perspective and candidate of
\* its selection.
C11_OneRecordPerSelection ==
    (pc = "done" /\ response.status = 200 /\ userId # NoUser) =>
        /\ Cardinality(Selected) >= 1
        /\ Cardinality(Appended) = Cardinality(Selected)
        /\ response.totalFound = Cardinality(Selected)
        /\ groupId # NoGroup
        /\ \A r \in Appended :
              /\ r.generationGroupId = groupId
              /\ r.inputText = text.val
              /\ r.userId = RowId(userId)
              /\ r.id \notin {q.id : q \in before.records}
        /\ \A b \in Selected :
              Cardinality({r \in Appended :
                              /\ r.perspective = strategies[b]
                              /\ r.gifUrl = sel[b].selectedGif}) = 1

C11_TwoOfThreePersisted ==
    /\ pc = "done"
    /\ response.status = 200
    /\ userId # NoUser
    /\ \E b \in Branches : search[b].error = "Network error"
    /\ response.totalFound = 2
    /\ Cardinality(Appended) = 2
    /\ {r.perspective : r \in Appended} = {"emotional", "sarcastic"}

ServerSideCalls == {"quota", "upsert", "lookup", "write"}

C13_DerivationFailureIsFatal ==
    /\ Contains(effects, "search") =>
          /\ Len(strategies) = 3
          /\ \A i \in 1..Len(strategies) : strategies[i] \in Perspectives
    /\ (pc = "done" /\ effects # <<>> /\ effects[Len(effects)] = "derive"
          /\ strategies = <<>>) =>
          /\ response.status = 500
          /\ response.results = <<>>
          /\ response.totalFound = 0
          /\ SeqRange(effects) \cap {"search", "select", "lookup", "write"} = {}
          /\ \A b \in Branches : search[b].st = "idle" /\ sel[b].st = "idle"
          /\ \A b \in Branches : writes[b] = "none"
          /\ records = before.records

C13_DerivationFailed ==
    /\ pc = "done"
    /\ userId # NoUser
    /\ giphyKey
    /\ effects = <<"quota", "upsert", "derive">>
    /\ strategies = <<>>
    /\ response.status = 500

\* C18: the success response of an identified caller carries the limiter's
\* limit and, as rateLimit.remaining, the remaining value the request's own
\* quota check returned: the caller's tokens before the request minus one.
C18_RemainingFromQuotaCheck ==
    (pc = "done" /\ response.status = 200 /\ userId # NoUser) =>
        /\ response.hasRateLimit
        /\ response.remaining = before.quota[userId] - 1
        /\ response.remaining = quota[userId]
        /\ response.limit = 10

C18_ThreeRemainingBefore ==
    /\ pc = "done"
    /\ response.status = 200
    /\ userId # NoUser
    /\ before.quota[userId] = 3
    /\ Len(response.results) = 3
    /\ response.remaining = 2

(* ------------------------------------------- properties of the history read *)
Groups == hist.response.generations
OwnRows == {r \in records : r.userId = RowId(hist.caller)}
Paged == hist.response.status = 200 /\ hist.response.hasPagination
\* a read whose page holds every group: page 1 of the default size 12
FullPage ==
    /\ Paged
    /\ hist.rawPage \in {"absent", "1"}
    /\ hist.rawLimit = "absent"
InGroup(r, i) == \E j \in 1..Len(Groups[i].gifs) : Groups[i].gifs[j] = r
GroupsOf(r) == {i \in 1..Len(Groups) : InGroup(r, i)}
PositionIn(seq, r) == CHOOSE i \in 1..Len(seq) : seq[i] = r

\* C14: history reconstruction partitions the caller's rows into groups:
\* every row is in exactly one group, once; two rows share a group exactly
\* when they have the same non-null group id, and the group is keyed by that
\* id; a row with a null group id is a group of its own keyed by its own id.
C14_GroupsPartitionRows ==
    FullPage =>
        /\ \A r \in OwnRows : Cardinality(GroupsOf(r)) = 1
        /\ \A i \in 1..Len(Groups) :
              /\ Len(Groups[i].gifs) >= 1
              /\ \A j \in 1..Len(Groups[i].gifs) : Groups[i].gifs[j] \in OwnRows
              /\ \A j, k \in 1..Len(Groups[i].gifs) :
                    j # k => Groups[i].gifs[j] # Groups[i].gifs[k]
        /\ \A r, q \in OwnRows :
              r # q => ((GroupsOf(r) = GroupsOf(q))
                          <=> (/\ r.generationGroupId # "null"
                               /\ r.generationGroupId = q.generationGroupId))
        /\ \A r \in OwnRows : \A i \in GroupsOf(r) :
              Groups[i].groupId = IF r.generationGroupId # "null"
                                  THEN r.generationGroupId ELSE r.id

C14_ExampleGrouping ==
    /\ FullPage
    /\ hist.caller = "u1"
    /\ {r.id : r \in OwnRows} = {"a", "b", "c"}
    /\ Len(Groups) = 2
    /\ Groups[1].groupId = "g"
    /\ Len(Groups[1].gifs) = 2
    /\ Groups[1].gifs[1].id = "b"
    /\ Groups[1].gifs[2].id = "a"
    /\ Groups[2].groupId = "c"
    /\ Len(Groups[2].gifs) = 1

MinOf(a, b) == IF a < b THEN a ELSE b

\* C15: for page >= 1 and page size >= 1 the response holds the groups at
\* positions (page-1)*size+1 .. min(page*size, groupCount) of the group
\* sequence, each group whole, with total = groupCount and
\* totalPages = ceil(groupCount / size); 25 groups at size 12 give 12 groups
\* on page 1, one group on page 3 and 3 pages.
C15_PaginationOverGroups ==
    /\ (Paged /\ hist.response.page.k = "int" /\ hist.response.page.n >= 1
          /\ hist.response.limit.k = "int" /\ hist.response.limit.n >= 1) =>
          LET all == GroupedArray(hist.gens)
              size == hist.response.limit.n
              first == (hist.response.page.n - 1) * size + 1
              last == MinOf(hist.response.page.n * size, Len(all))
          IN /\ Groups = [i \in 1..(IF last >= first THEN last - first + 1 ELSE 0)
                            |-> all[first + i - 1]]
             /\ hist.response.total = Len(all)
             /\ Cardinality({g.groupId : g \in SeqRange(all)}) = Len(all)
             /\ hist.response.totalPages.k = "int"
             /\ hist.response.totalPages.n * size >= Len(all)
             /\ (hist.response.totalPages.n - 1) * size < Len(all)
    /\ LET all == [i \in 1..25 |-> i]
           pageSize == ParamOr("absent", DefaultPageSize) IN
       /\ PaginatedGroups(all, Num(1), pageSize) = [i \in 1..12 |-> i]
       /\ PaginatedGroups(all, Num(3), pageSize) = <<25>>
       /\ CeilDiv(Len(all), pageSize) = Num(3)

C15_LastPartialPage ==
    /\ Paged
    /\ hist.rawPage = "2"
    /\ hist.rawLimit = "2"
    /\ hist.response.total = 3
    /\ Len(Groups) = 1
    /\ Cardinality(OwnRows) >= 5
    /\ hist.response.totalPages = Num(2)

\* C16: in every returned group the rows are in rank order emotional <
\* literal < sarcastic < any other or null perspective, and rows of equal
\* rank are in the order the read returned them.
C16_RowsInRankOrder ==
    Paged =>
        \A i \in 1..Len(Groups) :
            \A j, k \in 1..Len(Groups[i].gifs) :
                j < k =>
                    LET first == Groups[i].gifs[j]
                        second == Groups[i].gifs[k]
                    IN /\ Rank(first.perspective) <= Rank(second.perspective)
                       /\ Rank(first.perspective) = Rank(second.perspective) =>
                             PositionIn(hist.gens, first)
                               < PositionIn(hist.gens, second)

C16_SortedAgainstInputOrder ==
    /\ FullPage
    /\ \E i \in 1..Len(Groups) :
          /\ Len(Groups[i].gifs) = 3
          /\ Groups[i].gifs[1].perspective = "emotional"
          /\ Groups[i].gifs[2].perspective = "literal"
          /\ Groups[i].gifs[3].perspective = "shrug"
          /\ PositionIn(hist.gens, Groups[i].gifs[3])
               < PositionIn(hist.gens, Groups[i].gifs[1])
    /\ \E i \in 1..Len(Groups) :
          /\ Len(Groups[i].gifs) = 3
          /\ Groups[i].gifs[1].perspective = "emotional"
          /\ Groups[i].gifs[2].perspective = "emotional"

MaxCreatedAt(gifs) ==
    CHOOSE t \in {gifs[j].createdAt : j \in 1..Len(gifs)} :
        \A j \in 1..Len(gifs) : gifs[j].createdAt <= t

\* C17: the returned group sequence is in descending order of the groups'
\* createdAt, and a group's createdAt is the newest createdAt of its rows.
C17_GroupsNewestFirst ==
    Paged =>
        /\ \A i \in 1..Len(Groups) :
              Groups[i].createdAt = MaxCreatedAt(Groups[i].gifs)
        /\ \A i \in 1..(Len(Groups) - 1) :
              Groups[i].createdAt >= Groups[i + 1].createdAt

C17_InterleavedGroups ==
    /\ FullPage
    /\ Len(Groups) = 3
    /\ Groups[1].createdAt > Groups[2].createdAt
    /\ Groups[2].createdAt > Groups[3].createdAt
    /\ \E j \in 1..Len(Groups[1].gifs) :
          Groups[1].gifs[j].createdAt < Groups[2].createdAt

\* C19: an unauthenticated history read is answered 401 without any store
\* read, and every row in every group returned to an authenticated caller
\* is owned by that caller's user row.
C19_OwnRowsOnly ==
    /\ (hist # HistIdle /\ hist.caller = NoUser) =>
          /\ hist.response.status = 401
          /\ hist.reads = <<>>
          /\ hist.response.generations = <<>>
    /\ (hist # HistIdle /\ hist.caller # NoUser) =>
          \A i \in 1..Len(Groups) : \A j \in 1..Len(Groups[i].gifs) :
              Groups[i].gifs[j].userId = RowId(hist.caller)

C19_OtherUsersRowsPresent ==
    /\ FullPage
    /\ hist.caller = "u1"
    /\ \E r \in records : r.userId = RowId("u2")
    /\ Len(Groups) >= 2

(* ----------------------------------------------- properties of the browser *)
\* some instance starts a generate request in this step
SendsRequest ==
    \E i \in Instances : ~client.inst[i].live /\ client'.inst[i].live

\* C20: once a successful response has set trial_used in localStorage, no
\* mounted GifGenerator instance sends another generate request while the
\* user is not signed in.
C20_OneTrialPerBrowser ==
    [][(client.storage = "true" /\ ~client.signedIn) => ~SendsRequest]_vars

(* --------------------------------------------- properties of the selection *)
\* the candidate list of a branch, and whether an answer of the reasoning
\* service is an index inside it
CandidatesOf(b) == search[b].gifs.items
InRange(b, ans) == ans.kind = "index" /\ ans.index < Len(CandidatesOf(b))

\* C21: when the selection of a branch with n >= 1 candidates settles, the
\* chosen candidate is candidates[i] if the reasoning service returned an
\* index i with 0 <= i < n, and candidates[0] if the index is out of range
\* or the call failed; it is an element of the branch's own candidate list
\* and of no other branch's.
C21_ChosenFromOwnCandidates ==
    [][\A b \in Branches, ans \in SelectionAnswers :
          SelectComplete(b, ans) =>
              /\ Len(CandidatesOf(b)) >= 1
              /\ sel'[b].selectedGif =
                    IF InRange(b, ans) THEN CandidatesOf(b)[ans.index + 1]
                    ELSE CandidatesOf(b)[1]
              /\ \E i \in 1..Len(CandidatesOf(b)) :
                    sel'[b].selectedGif = CandidatesOf(b)[i]
              /\ \A c \in Branches \ {b} :
                    \A i \in 1..Len(CandidatesOf(c)) :
                        sel'[b].selectedGif # CandidatesOf(c)[i]]_vars

C21_SecondCandidateChosen ==
    \E b, c \in Branches :
        /\ b # c
        /\ sel[b].st = "done"
        /\ ~sel[b].error
        /\ Len(CandidatesOf(b)) = 2
        /\ sel[b].selectedGif = CandidatesOf(b)[2]
        /\ sel[c].st = "done"
        /\ sel[c].error
        /\ Len(CandidatesOf(c)) = 2
        /\ sel[c].selectedGif = CandidatesOf(c)[1]

\* C22: a settled selection has its error flag set and the fixed
\* degraded-mode reasoning whenever the chosen candidate came from the
\* fallback (the call failed or the index was out of range), and has the
\* flag clear and the service's reasoning exactly when the index was in
\* range.
C22_FallbackMarkedDegraded ==
    [][\A b \in Branches, ans \in SelectionAnswers :
          SelectComplete(b, ans) =>
              /\ sel'[b].error <=> ~InRange(b, ans)
              /\ sel'[b].reasoning =
                    IF InRange(b, ans) THEN "service reasoning"
                    ELSE "AI selection failed, using top result"]_vars

SelectionCalls == Len(SelectSeq(effects, LAMBDA e : e = "select"))

\* C23: once the selection stage of a request has been entered, the number
\* of selection calls made equals the number of branches with at least one
\* candidate, and every branch without candidates has made no call and has
\* the selection with no chosen candidate, the error flag set, and as its
\* reasoning the branch's search error if it has one and the no-results
\* message otherwise.
C23_CallsMatchCandidates ==
    (SearchesDone /\ pc \in {"select", "persist", "done"}) =>
        /\ SelectionCalls = Cardinality({b \in Branches : HasCandidates(b)})
        /\ \A b \in Branches :
              HasCandidates(b) => sel[b].st \in {"pending", "done"}
        /\ \A b \in Branches :
              ~HasCandidates(b) =>
                  /\ sel[b].st = "done"
                  /\ sel[b].selectedGif = NullGif
                  /\ sel[b].error
                  /\ sel[b].reasoning =
                        IF search[b].error # "null" THEN search[b].error
                        ELSE "No GIFs found for this perspective"

(* ------------------------------------------ properties of the record store *)
\* C24: the records written by one request carry one timestamp: any two of
\* them, which have the same group id, have equal createdAt values.
C24_OneTimestampPerGroup ==
    \A r, q \in Appended :
        r.generationGroupId = q.generationGroupId => r.createdAt = q.createdAt

\* the record a settled write of branch b has put in the store
WrittenBy(b) ==
    {r \in records :
        /\ r.generationGroupId = groupId
        /\ r.userId = RowId(userId)
        /\ r.perspective = strategies[b]
        /\ r.gifUrl = sel[b].selectedGif}

\* C25: the record writes of a request have no cross-record atomicity: the
\* record of every write that succeeded is in the store whatever happened
\* to the other writes, no step removes a record, and a failed write stays
\* failed (no rollback, no retry, no repair).
C25_NoRollback ==
    /\ [](\A b \in Branches : writes[b] = "ok" => WrittenBy(b) # {})
    /\ [][/\ records \subseteq records'
          /\ \A b \in Branches :
                writes[b] \in {"ok", "failed"} => writes'[b] = writes[b]]_vars

C25_GroupShortOfSelections ==
    /\ pc = "done"
    /\ response.status = 500
    /\ \A b \in Branches : writes[b] # "pending"
    /\ \E b \in Branches : writes[b] = "failed"
    /\ Cardinality(Selected) = 3
    /\ Cardinality(Appended) = 2
    /\ \A r \in Appended : r.generationGroupId = groupId
    /\ Cardinality({r \in records : r.generationGroupId = groupId}) = 2

GroupOf(g) == {r \in records : r.generationGroupId = g}

\* C26: in every state of the generation table every group (the records
\* sharing one group id) holds at least 1 and at most 3 records.
C26_GroupSizeOneToThree ==
    \A r \in records :
        /\ Cardinality(GroupOf(r.generationGroupId)) >= 1
        /\ Cardinality(GroupOf(r.generationGroupId)) <= 3

(* ------------------------------------------------ properties of the quota *)
\* the quota gate admitted the request: the handler went on to the upsert
Admitted == userId # NoUser /\ (pc = "upsert" \/ Contains(effects, "upsert"))

\* the tokens left of a full window after n admitted requests
RECURSIVE TokensAfter(_)
TokensAfter(n) ==
    IF n = 0 THEN RateLimitCapacity
    ELSE RatelimitLimit(TokensAfter(n - 1)).remaining

\* C27: from the moment the quota gate admits a request of an identified
\* caller, the caller has exactly one token less than before the request
\* and every other caller as many as before, through to the end of the
\* request whatever its status (200, 400, 404 or 500); a full window admits
\* 10 requests and rejects the next.
C27_QuotaUnitNeverRefunded ==
    /\ Admitted =>
          /\ before.quota[userId] >= 1
          /\ quota[userId] = before.quota[userId] - 1
          /\ \A u \in UserIds \ {userId} : quota[u] = before.quota[u]
          /\ response.status \in {0, 200, 400, 404, 500}
    /\ \A n \in 0..(RateLimitCapacity - 1) : RatelimitLimit(TokensAfter(n)).success
    /\ ~RatelimitLimit(TokensAfter(RateLimitCapacity)).success
    /\ RateLimitCapacity = 10

C27_NotFoundAfterAdmission ==
    /\ pc = "done"
    /\ Admitted
    /\ response.status = 404
    /\ before.quota[userId] = 3
    /\ quota[userId] = 2

(* ------------------------------------------ properties of the stats read *)
StatsRows == {r \in records : r.userId = RowId(stats.caller)}
Counted == stats.response.status = 200 /\ stats.caller \in users

\* the distinct group keys of a set of rows: the group id, or the row's own
\* id when the group id is null
KeysOf(rows) ==
    {IF r.generationGroupId # "null" THEN r.generationGroupId ELSE r.id :
        r \in rows}

\* C28: for the records of one user, totalGenerations of the stats response
\* is the number of distinct group keys and equals pagination.total of every
\* history response computed from the same records, whatever the page and
\* page size; todayGenerations is the number of distinct group keys among
\* the rows created today and never exceeds totalGenerations.
C28_StatsTotalIsHistoryTotal ==
    Counted =>
        /\ stats.response.totalGenerations = Cardinality(KeysOf(StatsRows))
        /\ \A gens \in FindMany(records, RowId(stats.caller)) :
              \A rawPage, rawLimit \in RawParams :
                 HistoryResponse(gens, ParamOr(rawPage, DefaultPage),
                                 ParamOr(rawLimit, DefaultPageSize)).total
                   = stats.response.totalGenerations
        /\ stats.response.todayGenerations =
              Cardinality(KeysOf({r \in StatsRows : r.createdAt >= stats.today}))
        /\ stats.response.todayGenerations <= stats.response.totalGenerations

C28_FewerGroupsThanRows ==
    /\ Counted
    /\ Cardinality(StatsRows) = 7
    /\ stats.response.totalGenerations = 3
    /\ stats.response.todayGenerations = 2
    /\ \E r \in records : r.userId # RowId(stats.caller)

(* ------------------------------------------- properties of handleSubmit *)
ExactlyOneShown(st) == (st.result # "null") # (st.error # "null")

\* C29: a mounted GifGenerator has at most one generate request in flight
\* and isPending is true exactly while it has one; handleSubmit starts a
\* request only when isPending is false and the trimmed input is not empty;
\* and when the request settles, whatever its outcome, isPending is false
\* and exactly one of result and error is set.
C29_OneRequestInFlight ==
    /\ [](\A i \in Instances :
             client.inst[i].mounted =>
                 /\ client.inst[i].inFlight \in {0, 1}
                 /\ client.inst[i].isPending <=> client.inst[i].inFlight = 1
                 /\ ~(client.inst[i].result # "null" /\ client.inst[i].error # "null"))
    /\ [][\A i \in Instances :
             /\ client'.inst[i].inFlight > client.inst[i].inFlight =>
                   /\ ~client.inst[i].isPending
                   /\ Trim(client.inst[i].input) # ""
             /\ (/\ client'.inst[i].mounted
                 /\ client'.inst[i].inFlight < client.inst[i].inFlight) =>
                   /\ ~client'.inst[i].isPending
                   /\ ExactlyOneShown(client'.inst[i])]_vars

C29_SettledAndPending ==
    /\ client.inst["tab1"].mounted
    /\ ~client.inst["tab1"].isPending
    /\ client.inst["tab1"].error = "Something went wrong"
    /\ client.inst["tab1"].result = "null"
    /\ client.inst["tab2"].mounted
    /\ client.inst["tab2"].isPending
    /\ client.inst["tab2"].inFlight = 1
    /\ client.signedIn

(* ------------------------------------ properties of the query parameters *)
\* C30: whatever the page and limit parameters, the history response has a
\* finite non-negative integer totalPages and its page holds at most limit
\* groups, which are consecutive groups of the group sequence starting at
\* offset (page - 1) * limit, never groups counted from the end.
C30_WellFormedPage ==
    Paged =>
        LET all == GroupedArray(hist.gens)
            page == hist.response.page
            lim == hist.response.limit
        IN /\ hist.response.totalPages.k = "int"
           /\ hist.response.totalPages.n >= 0
           /\ Groups # <<>> =>
                 /\ page.k = "int" /\ page.n >= 1
                 /\ lim.k = "int" /\ lim.n >= 1
                 /\ Len(Groups) <= lim.n
                 /\ (page.n - 1) * lim.n + Len(Groups) <= Len(all)
                 /\ Groups = SubSeq(all, (page.n - 1) * lim.n + 1,
                                    (page.n - 1) * lim.n + Len(Groups))

====
